---- MODULE Spec2Model ----
(***************************************************************************)
(* Model of the notify-service notification lifecycle: the notifications   *)
(* (template) table, the notification_recipients table, the local users    *)
(* directory and the system notification templates, with one action per    *)
(* HTTP handler / service method that writes them.                         *)
(*                                                                         *)
(* Every action but Tick is one request, executed to completion; Tick is   *)
(* the passage of time.  time.Now() reads `clock`, which counts whole      *)
(* days: two requests at the same instant are less than 24 hours apart,    *)
(* two requests at different instants at least 24 hours.                   *)
(*                                                                         *)
(* A store statement of a multi-statement request can fail; the input      *)
(* `fail` of such an action names the statement that fails in that request *)
(* ("none" when all succeed).  A behaviour holds at most MaxOps requests.  *)
(*                                                                         *)
(* Spec runs the requests one after the other.  BrokerSpec and BrokerLive  *)
(* are the SSE broker with its client channels, StreamSpec adds the stream *)
(* writer of a connection, RaceSpec runs the statements of requests that   *)
(* are in flight together, and RenderSpec is renderTemplateString.         *)
(***************************************************************************)
EXTENDS Integers, Sequences, FiniteSets, TLC

\* ---------------------------------------------------------------- bounds
MaxNotifs == 2
MaxRows == 3
MaxClock == 1
MaxOps == 3
MaxChans == 2
MaxProcs == 2

\* ------------------------------------------------------------- constants
\* the 24 hour dedup window, in clock units of one day
DedupWindow == 1

NoTime == -1
SchedTimes == {1}

UUIDs == {"u1", "u2"}
BadUserID == "not-a-uuid"
\* the contents of the users table after the directory sync
Directories == {{"u1", "u2"}, {"u1", BadUserID}}

EmptyText == ""
SystemContent == "rendered"

NoKey == "<nil>"
DedupKeys == {"k1"}

SeededEventKey == "kyc.submitted"
UnknownEventKey == "unknown.event"
EventKeys == {SeededEventKey, UnknownEventKey}
SeededTemplateVars == <<"user_name", "timestamp">>
VarNames == {"user_name", "timestamp"}

\* target_user_ids of a request: none, one, two different, one repeated
NoTargets == <<>>
TargetLists == {<<>>, <<"u1">>, <<"u1", "u2">>, <<"u2", "u2">>}

NullOther == "null"

\* capacity of a client queue: make(chan sse.Event, 10)
QueueCap == 10

\* Event.Data of a broadcast: a value json.Marshal encodes, and one it rejects
\* (a channel, a function, a NaN)
Marshalable == "data"
Unmarshalable == "chan"
EventData == {Marshalable, Unmarshalable}
EventType == "notification.created"

VARIABLES notifications, recipients, nextRid, users, sysEnabled, clock, last, ops,
          clients, chans, bc, rd, procs
vars == <<notifications, recipients, nextRid, users, sysEnabled, clock, last,
          ops, clients, chans, bc, rd, procs>>
\* a call of renderTemplateString, and the requests that are in flight
\* together
renderVars == <<rd>>
raceVars == <<procs>>
\* the store, and the SSE broker with its client channels
storeVars == <<notifications, recipients, nextRid, users, sysEnabled, clock, ops,
               renderVars, raceVars>>
brokerVars == <<clients, chans, bc>>

\* ------------------------------------------------------------ data model
\* models.Notification.Metadata: the JSON bag.  `other` stands for the
\* caller-supplied keys (NullOther: the column is NULL / no such keys).
Metadata(other, targets, key) ==
    [other |-> other, target_user_ids |-> targets, dedup_key |-> key]

\* models.Notification
Notification(content, meta, isDraft, scheduledAt, deliveredAt) ==
    [content |-> content, metadata |-> meta, isDraft |-> isDraft,
     scheduledAt |-> scheduledAt, deliveredAt |-> deliveredAt,
     deleted |-> FALSE]

\* models.NotificationRecipient
NotificationRecipient(rid, nid, uid, status, deliveredAt, createdAt) ==
    [rid |-> rid, notification_id |-> nid, user_id |-> uid, status |-> status,
     delivered_at |-> deliveredAt, read_at |-> NoTime, created_at |-> createdAt]

RecipientStatusPending == "pending"
RecipientStatusDelivered == "delivered"
RecipientStatusRead == "read"
RecipientStatusFailed == "failed"

NotifIds == 1..MaxNotifs

\* the response of the last request, and the request it answers
NoCall ==
    [op |-> "init", id |-> 0, user |-> "", ids |-> {}, out |-> "ok",
     missing |-> "", event |-> "", fail |-> "none"]

\* the statement of a request that the store fails, should the request reach
\* it
PublishFails == {"none", "users", "insert", "update"}
TxFails == {"none", "first", "second"}
TriggerFails == {"none", "lookup", "dedup", "template", "recipient"}

\* the broadcaster when no Broadcast is running
BcIdle ==
    [pc |-> "idle", all |-> FALSE, user |-> "", data |-> Marshalable,
     todo |-> {}, done |-> {}]

\* Broker.clients[u]: `ok` tells whether the map has the key, `set` is the
\* inner map of the user's channels
NoEntry == [ok |-> FALSE, set |-> {}]

\* NewBroker: an empty client map; no channel has been made
NewBroker ==
    /\ clients = [u \in UUIDs |-> NoEntry]
    /\ chans = <<>>
    /\ bc = BcIdle

\* no call of renderTemplateString is running
RdIdle == [pc |-> "idle", template |-> <<>>, variables |-> <<>>, todo |-> {},
           result |-> <<>>]

\* no request is in flight
NoProcs == <<>>

Init ==
    /\ notifications = <<>>
    /\ recipients = {}
    /\ nextRid = 1
    /\ users \in Directories
    /\ sysEnabled = TRUE
    /\ clock = 0
    /\ last = NoCall
    /\ ops = 0
    /\ NewBroker
    /\ rd = RdIdle
    /\ procs = NoProcs

\* time.Now()
now == clock

\* every request counts against the budget of the behaviour and leaves the
\* clock alone
Request ==
    /\ ops < MaxOps
    /\ ops' = ops + 1
    /\ UNCHANGED clock
    /\ UNCHANGED <<brokerVars, renderVars, raceVars>>

\* the passage of one day between two requests
Tick ==
    /\ clock < MaxClock
    /\ clock' = clock + 1
    /\ UNCHANGED <<notifications, recipients, nextRid, users, sysEnabled, last,
                   ops>>
    /\ UNCHANGED <<brokerVars, renderVars, raceVars>>

\* gorm adds "deleted_at IS NULL" to every query on notifications
Live(id) == id \in 1..Len(notifications) /\ ~notifications[id].deleted

RowsOf(id) == {r \in recipients : r.notification_id = id}

\* ------------------------------------------------------ admin lifecycle
\* a handler that accepts every body
AnyFieldsAccepted(content) == TRUE

\* `if req.Heading == "" || req.Title == "" || req.Message == ""` does not
\* reject the body
RequiredFieldsPresent(content) == content # EmptyText

\* NotificationHandler.CreateNotification + NotifyService.CreateNotification
CreateNotification(content, other, sched) ==
    /\ Len(notifications) < MaxNotifs
    /\ Request
    /\ IF ~RequiredFieldsPresent(content)
       THEN /\ last' = [NoCall EXCEPT !.op = "CreateNotification", !.out = "bad_request"]
            /\ UNCHANGED notifications
       ELSE /\ notifications' = Append(notifications,
                  Notification(content, Metadata(other, NoTargets, NoKey),
                               TRUE, sched, NoTime))
            /\ last' = [NoCall EXCEPT !.op = "CreateNotification",
                                      !.id = Len(notifications) + 1]
    /\ UNCHANGED <<recipients, nextRid, users, sysEnabled>>

\* the lookup without its is_draft condition
FindAnyNotification(id) == Live(id)

\* Where("id = ? AND is_draft = true", id).First(&existing)
FindDraft(id) == Live(id) /\ notifications[id].isDraft

\* an updates map that lacks the content columns
ApplyUpdateKeepContent(n, content, other, sched) ==
    [n EXCEPT !.metadata = Metadata(other, NoTargets, NoKey),
              !.scheduledAt = sched]

\* the updates map of UpdateNotification: content, metadata and scheduled_at
\* are replaced by the request's values
ApplyUpdate(n, content, other, sched) ==
    [n EXCEPT !.content = content,
              !.metadata = Metadata(other, NoTargets, NoKey),
              !.scheduledAt = sched]

\* NotificationHandler.UpdateNotification + NotifyService.UpdateNotification
UpdateNotification(id, content, other, sched) ==
    /\ Request
    /\ LET call == [NoCall EXCEPT !.op = "UpdateNotification", !.id = id]
       IN  IF content = EmptyText
           THEN /\ last' = [call EXCEPT !.out = "bad_request"]
                /\ UNCHANGED notifications
           ELSE IF ~FindDraft(id)
           THEN /\ last' = [call EXCEPT !.out = "error"]
                /\ UNCHANGED notifications
           ELSE /\ notifications' = [notifications EXCEPT
                        ![id] = ApplyUpdate(@, content, other, sched)]
                /\ last' = call
    /\ UNCHANGED <<recipients, nextRid, users, sysEnabled>>

\* NotifyService.DeleteNotification: one transaction; recipients are hard
\* deleted, the template is soft deleted
DeleteNotification(id, fail) ==
    /\ fail \in TxFails
    /\ Request
    /\ LET call == [NoCall EXCEPT !.op = "DeleteNotification", !.id = id,
                                  !.fail = fail]
       IN  IF fail # "none"
           THEN /\ last' = [call EXCEPT !.out = "error"]
                /\ UNCHANGED <<notifications, recipients>>
           ELSE /\ recipients' = recipients \ RowsOf(id)
                /\ notifications' = IF Live(id)
                                    THEN [notifications EXCEPT ![id].deleted = TRUE]
                                    ELSE notifications
                /\ last' = call
    /\ UNCHANGED <<nextRid, users, sysEnabled>>

RECURSIVE SetToSeq(_)
SetToSeq(S) ==
    IF S = {} THEN <<>>
    ELSE LET x == CHOOSE y \in S : TRUE IN <<x>> \o SetToSeq(S \ {x})

\* uuid.Parse(u.ID) succeeds
ParsesAsUUID(e) == e \in UUIDs

\* PublishNotification lines 764-774: an empty target list is replaced by the
\* ids of the users table that parse as a UUID
ResolveTargets(targets) ==
    IF Len(targets) = 0
    THEN SetToSeq({e \in users : ParsesAsUUID(e)})
    ELSE targets

\* one pending row per distinct target
PendingRowsDistinct(id, targets) ==
    {NotificationRecipient(nextRid + i - 1, id, targets[i],
                           RecipientStatusPending, NoTime, now) :
        i \in {k \in 1..Len(targets) :
                  \A j \in 1..(k - 1) : targets[j] # targets[k]}}

\* rows that are published as delivered
DeliveredRows(id, targets) ==
    {NotificationRecipient(nextRid + i - 1, id, targets[i],
                           RecipientStatusDelivered, now, now) :
        i \in 1..Len(targets)}

\* PublishNotification lines 776-785: one pending row per target
PendingRows(id, targets) ==
    {NotificationRecipient(nextRid + i - 1, id, targets[i],
                           RecipientStatusPending, NoTime, now) :
        i \in 1..Len(targets)}

\* a transaction whose inserted rows outlive the failure of a later statement
RowsAfterFailure(fail, rows) == IF fail = "update" THEN rows ELSE {}

\* db.Transaction around the insert and the update: the rows the transaction
\* leaves behind are all of its rows when the closure returns nil, and none
\* when it returns an error (rollback)
RowsAfterTransaction(fail, rows) == IF fail = "none" THEN rows ELSE {}

\* NotifyService.PublishNotification
PublishNotification(id, targets, fail) ==
    /\ fail \in PublishFails
    /\ Request
    /\ LET call == [NoCall EXCEPT !.op = "PublishNotification", !.id = id,
                                  !.fail = fail]
           resolved == ResolveTargets(targets)
       IN  /\ nextRid + Len(resolved) - 1 <= MaxRows
           /\ IF \/ ~FindDraft(id)
                 \/ (fail = "users" /\ Len(targets) = 0)
              THEN /\ last' = [call EXCEPT !.out = "error"]
                   /\ UNCHANGED <<notifications, recipients, nextRid>>
              ELSE IF fail \in {"insert", "update"}
              THEN LET kept == RowsAfterTransaction(fail,
                                       PendingRows(id, resolved))
                   IN  /\ last' = [call EXCEPT !.out = "error"]
                       /\ recipients' = recipients \cup kept
                       /\ nextRid' = nextRid + Cardinality(kept)
                       /\ UNCHANGED notifications
              ELSE /\ recipients' = recipients \cup PendingRows(id, resolved)
                   /\ nextRid' = nextRid + Len(resolved)
                   /\ notifications' = [notifications EXCEPT
                           ![id].isDraft = FALSE, ![id].deliveredAt = now]
                   /\ last' = call
    /\ UNCHANGED <<users, sysEnabled>>

\* an Updates map that lacks delivered_at
ResetKeepDelivered(n) ==
    [n EXCEPT !.isDraft = TRUE, !.scheduledAt = NoTime]

\* the Updates map of ConvertToDraft
ResetToDraft(n) ==
    [n EXCEPT !.isDraft = TRUE, !.scheduledAt = NoTime, !.deliveredAt = NoTime]

\* a store that keeps a transaction usable after a failed statement
CommitDespiteFailure(fail) == TRUE

\* the COMMIT that gorm issues when the closure of a transaction returned nil.
\* The store is PostgreSQL (notification/db.go), which aborts a transaction at
\* its first failed statement and answers the COMMIT with a rollback, which
\* the driver reports as an error.
CommitSucceeds(fail) == fail = "none"

\* NotifyService.ConvertToDraft: one transaction.  A failure of the template
\* update ("first") is returned by the closure and rolls back; a failure of
\* the recipient delete ("second") is logged and swallowed, so the closure
\* returns nil and the outcome is that of the COMMIT.
ConvertToDraft(id, fail) ==
    /\ fail \in TxFails
    /\ Request
    /\ LET call == [NoCall EXCEPT !.op = "ConvertToDraft", !.id = id,
                                  !.fail = fail]
       IN  IF fail = "first" \/ ~CommitSucceeds(fail)
           THEN /\ last' = [call EXCEPT !.out = "error"]
                /\ UNCHANGED <<notifications, recipients>>
           ELSE /\ notifications' = IF Live(id)
                       THEN [notifications EXCEPT ![id] = ResetToDraft(@)]
                       ELSE notifications
                /\ recipients' = IF fail = "second"
                                  THEN recipients
                                  ELSE recipients \ RowsOf(id)
                /\ last' = call
    /\ UNCHANGED <<nextRid, users, sysEnabled>>

\* Where("id = ?", id).First(&existing) of the two schedule methods
FindForSchedule(id) == Live(id)

\* a metadata column that is replaced by the target list alone
ReplacedMetadata(meta, targets) == Metadata(NullOther, targets, NoKey)

\* ScheduleNotificationWithTargets lines 1053-1066: the metadata column is
\* rewritten only when the target list is not empty
ScheduledMetadata(meta, targets) ==
    IF Len(targets) > 0
    THEN [meta EXCEPT !.target_user_ids = targets]
    ELSE meta

\* NotifyService.ScheduleNotificationWithTargets
ScheduleNotificationWithTargets(id, t, targets) ==
    /\ Request
    /\ LET call == [NoCall EXCEPT !.op = "ScheduleNotificationWithTargets",
                                  !.id = id]
       IN  IF ~FindForSchedule(id)
           THEN /\ last' = [call EXCEPT !.out = "error"]
                /\ UNCHANGED notifications
           ELSE /\ notifications' = [notifications EXCEPT
                       ![id].scheduledAt = t,
                       ![id].metadata = ScheduledMetadata(@, targets)]
                /\ last' = call
    /\ UNCHANGED <<recipients, nextRid, users, sysEnabled>>

\* a metadata column that is emptied
ClearedMetadata(meta) == Metadata(NullOther, NoTargets, NoKey)

\* UnscheduleNotificationWithCleanup lines 1079-1087
UnscheduledMetadata(meta) == [meta EXCEPT !.target_user_ids = NoTargets]

\* NotifyService.UnscheduleNotificationWithCleanup
UnscheduleNotificationWithCleanup(id) ==
    /\ Request
    /\ LET call == [NoCall EXCEPT !.op = "UnscheduleNotificationWithCleanup",
                                  !.id = id]
       IN  IF ~FindForSchedule(id)
           THEN /\ last' = [call EXCEPT !.out = "error"]
                /\ UNCHANGED notifications
           ELSE /\ notifications' = [notifications EXCEPT
                       ![id].scheduledAt = NoTime,
                       ![id].metadata = UnscheduledMetadata(@)]
                /\ last' = call
    /\ UNCHANGED <<recipients, nextRid, users, sysEnabled>>

\* ------------------------------------------------------------ user feed
\* a condition that lacks the user
MarkReadMatchesAnyUser(r, user, ids) == r.notification_id \in ids

\* the rows matched by MarkNotificationsRead:
\* Where("user_id = ? AND notification_id IN ?", userID, notificationIDs)
MarkReadMatches(r, user, ids) == r.user_id = user /\ r.notification_id \in ids

\* the Updates map of MarkNotificationsRead and MarkAllRead
SetRead(r) == [r EXCEPT !.status = RecipientStatusRead, !.read_at = now]

\* NotificationHandler.MarkRead + NotifyService.MarkNotificationsRead
MarkNotificationsRead(user, ids) ==
    /\ Request
    /\ LET call == [NoCall EXCEPT !.op = "MarkNotificationsRead", !.user = user,
                                  !.ids = ids]
       IN  IF ids = {}
           THEN /\ last' = [call EXCEPT !.out = "bad_request"]
                /\ UNCHANGED recipients
           ELSE /\ recipients' = {IF MarkReadMatches(r, user, ids)
                                  THEN SetRead(r) ELSE r : r \in recipients}
                /\ last' = call
    /\ UNCHANGED <<notifications, nextRid, users, sysEnabled>>

\* a condition that lacks the status
MarkAllReadMatchesAnyStatus(r, user) == r.user_id = user

\* the rows matched by MarkAllRead:
\* Where("user_id = ? AND status = ?", userID, RecipientStatusDelivered)
MarkAllReadMatches(r, user) ==
    r.user_id = user /\ r.status = RecipientStatusDelivered

\* NotificationHandler.MarkAllRead + NotifyService.MarkAllRead
MarkAllRead(user) ==
    /\ Request
    /\ LET call == [NoCall EXCEPT !.op = "MarkAllRead", !.user = user]
       IN  /\ recipients' = {IF MarkAllReadMatches(r, user)
                             THEN SetRead(r) ELSE r : r \in recipients}
           /\ last' = call
    /\ UNCHANGED <<notifications, nextRid, users, sysEnabled>>

\* the rows GetUnreadNotifications joins: INNER JOIN notification_recipients
\* nr ON notifications.id = nr.notification_id WHERE nr.user_id = ? AND
\* nr.status = 'delivered', on the notifications that are not soft-deleted
UnreadRows(user) ==
    {r \in recipients :
        /\ r.user_id = user
        /\ r.status = RecipientStatusDelivered
        /\ Live(r.notification_id)}

\* NotifyService.GetUnreadNotifications: one notification per joined row,
\* ordered by the row's delivered_at
GetUnreadNotifications(user) ==
    {<<r.rid, r.delivered_at, notifications[r.notification_id]>> :
        r \in UnreadRows(user)}

\* NotificationHandler.HasUnreadNotifications: SELECT EXISTS(SELECT 1 FROM
\* notification_recipients WHERE user_id = ? AND status = 'delivered')
HasUnreadNotifications(user) ==
    \E r \in recipients :
        r.user_id = user /\ r.status = RecipientStatusDelivered

\* NotificationHandler.DeleteNotificationForUser: the rows of the user for
\* the notification are deleted; a statement that matches no row succeeds
DeleteNotificationForUser(user, id) ==
    /\ Request
    /\ recipients' = {r \in recipients :
                         ~(r.user_id = user /\ r.notification_id = id)}
    /\ last' = [NoCall EXCEPT !.op = "DeleteNotificationForUser",
                              !.user = user, !.id = id]
    /\ UNCHANGED <<notifications, nextRid, users, sysEnabled>>

\* NotificationHandler.ClearAllNotifications: the rows of the user for the
\* listed notifications, or every row of the user when the list is empty
ClearAllNotifications(user, ids) ==
    /\ Request
    /\ recipients' = {r \in recipients :
                         ~(/\ r.user_id = user
                           /\ ids # {} => r.notification_id \in ids)}
    /\ last' = [NoCall EXCEPT !.op = "ClearAllNotifications",
                              !.user = user, !.ids = ids]
    /\ UNCHANGED <<notifications, nextRid, users, sysEnabled>>

\* --------------------------------------------------- system notifications
\* NotificationHandler.UpdateSystemTemplate, restricted to the enabled flag
UpdateSystemTemplate(event, enabled) ==
    /\ Request
    /\ IF event = SeededEventKey
       THEN /\ sysEnabled' = enabled
            /\ last' = [NoCall EXCEPT !.op = "UpdateSystemTemplate"]
       ELSE /\ last' = [NoCall EXCEPT !.op = "UpdateSystemTemplate",
                                      !.out = "not_found"]
            /\ UNCHANGED sysEnabled
    /\ UNCHANGED <<notifications, recipients, nextRid, users>>

\* the lookup without its enabled condition
FindAnyTemplate(event) == event = SeededEventKey

\* Where("event_key = ? AND enabled = true", req.EventKey).First(&template)
FindEnabledTemplate(event) == event = SeededEventKey /\ sysEnabled

\* the last name of template_vars that the request's variables lack
LastMissing(required, present) ==
    IF \A i \in 1..Len(required) : required[i] \in present THEN ""
    ELSE required[CHOOSE i \in 1..Len(required) :
            /\ required[i] \notin present
            /\ \A j \in (i + 1)..Len(required) : required[j] \in present]

\* the loop over requiredVars: the first name of template_vars that the
\* request's variables lack ("" when none is missing)
RECURSIVE FirstMissing(_, _)
FirstMissing(required, present) ==
    IF required = <<>> THEN ""
    ELSE IF Head(required) \notin present THEN Head(required)
    ELSE FirstMissing(Tail(required), present)

\* the dedup query: recipient rows of the user, joined with their template,
\* whose template carries the dedup key and that are younger than the window
DedupCount(user, key) ==
    Cardinality({r \in recipients :
        /\ r.user_id = user
        /\ r.notification_id \in 1..Len(notifications)
        /\ notifications[r.notification_id].metadata.dedup_key = key
        /\ r.created_at > now - DedupWindow})

\* `err := db.Model(...)...Count(&count)`: err is the *gorm.DB that Count
\* returns, which is never nil, whether or not the query failed
DedupErrNotNil(fail) == TRUE

\* a dedup block that skips the delivery when its query fails
DedupHitOrFailed(user, key, fail) ==
    fail = "dedup" \/ DedupCount(user, key) > 0

\* the `else if count > 0` branch of the dedup block
DedupHit(user, key, fail) ==
    /\ ~DedupErrNotNil(fail)
    /\ DedupCount(user, key) > 0

\* the template and the recipient row of CreateAndDeliverSystemNotification
SystemNotification(key) ==
    Notification(SystemContent, Metadata("vars", NoTargets, key),
                 FALSE, NoTime, now)

\* a recipient row left pending, without deliveredAt
UndeliveredRow(nid, user) ==
    NotificationRecipient(nextRid, nid, user, RecipientStatusPending, NoTime, now)

\* the recipient row of CreateAndDeliverSystemNotification
DeliveredRow(nid, user) ==
    NotificationRecipient(nextRid, nid, user, RecipientStatusDelivered, now, now)

\* a delivery that takes the template back when its recipient row fails
TemplateRolledBack(ns, n, fail) ==
    IF fail = "recipient" THEN ns ELSE Append(ns, n)

\* the notifications table after lines 1016-1035: the template that Create
\* has inserted stays, whether or not the Create of the recipient row fails
TemplateKept(ns, n, fail) == Append(ns, n)

\* NotificationHandler.TriggerSystemNotification +
\* NotifyService.CreateAndDeliverSystemNotification.  The template and the
\* recipient row are written by two separate Create calls, outside any
\* transaction; an error of the second is logged and the call succeeds.
TriggerSystemNotification(event, user, present, key, fail) ==
    /\ fail \in TriggerFails
    /\ Len(notifications) < MaxNotifs
    /\ nextRid <= MaxRows
    /\ Request
    /\ LET call == [NoCall EXCEPT !.op = "TriggerSystemNotification",
                                  !.user = user, !.event = event,
                                  !.fail = fail]
           missing == FirstMissing(SeededTemplateVars, present)
       IN  IF fail = "lookup"
           THEN /\ last' = [call EXCEPT !.out = "error"]
                /\ UNCHANGED <<notifications, recipients, nextRid>>
           ELSE IF ~FindEnabledTemplate(event)
           THEN /\ last' = [call EXCEPT !.out = "no_content"]
                /\ UNCHANGED <<notifications, recipients, nextRid>>
           ELSE IF missing # ""
           THEN /\ last' = [call EXCEPT !.out = "bad_request",
                                        !.missing = missing]
                /\ UNCHANGED <<notifications, recipients, nextRid>>
           ELSE IF key # NoKey /\ DedupHit(user, key, fail)
           THEN /\ last' = [call EXCEPT !.out = "deduped"]
                /\ UNCHANGED <<notifications, recipients, nextRid>>
           ELSE IF fail = "template"
           THEN /\ last' = [call EXCEPT !.out = "error"]
                /\ UNCHANGED <<notifications, recipients, nextRid>>
           ELSE /\ notifications' = TemplateKept(notifications,
                                                 SystemNotification(key), fail)
                /\ IF fail = "recipient"
                   THEN UNCHANGED <<recipients, nextRid>>
                   ELSE /\ recipients' = recipients \cup
                              {DeliveredRow(Len(notifications) + 1, user)}
                        /\ nextRid' = nextRid + 1
                /\ last' = [call EXCEPT !.id = Len(notifications) + 1]
    /\ UNCHANGED <<users, sysEnabled>>

\* ------------------------------------------------------------ SSE broker
\* a broker whose writers do not wait for the lock
NoLock == TRUE

\* Broker.mu is free for a writer: no Broadcast holds the read lock
LockFree == bc.pc = "idle"

ChanIds == 1..MaxChans

\* a call of the broker, as `last` records it
BrokerCall(op, u, ch) == [NoCall EXCEPT !.op = op, !.user = u, !.id = ch]

\* the channels registered under a user
ClientsOf(u) == clients[u].set

\* Broker.Register: b.clients[userID][clientChan] = true
Register(u, ch) == [clients EXCEPT ![u] = [ok |-> TRUE, set |-> @.set \cup {ch}]]

\* StreamNotifications lines 658-660 and 673: make(chan sse.Event, 10),
\* broker.Register(userID, clientChan) and SetBodyStreamWriter; `pc` is the
\* position of the handler that owns the channel, `w` that of the stream
\* writer it has set
StreamNotifications(u) ==
    /\ Len(chans) < MaxChans
    /\ LockFree
    /\ chans' = Append(chans, [buf |-> <<>>, closed |-> FALSE,
                               pc |-> "registered", user |-> u,
                               w |-> "start"])
    /\ clients' = Register(u, Len(chans) + 1)
    /\ last' = BrokerCall("Register", u, Len(chans) + 1)
    /\ UNCHANGED <<bc, storeVars>>

\* Broker.Unregister(u, ch), leaving the handler that owns ch at `pcOk`, or
\* at `pcPanic` when close(clientChan) panics on a closed channel: the entry
\* is deleted before the close, the empty user key after it
UnregisterAt(u, ch, pcOk, pcPanic) ==
    /\ LockFree
    /\ IF ~clients[u].ok
       THEN /\ chans' = [chans EXCEPT ![ch].pc = pcOk]
            /\ last' = BrokerCall("Unregister", u, ch)
            /\ UNCHANGED clients
       ELSE IF chans[ch].closed
       THEN /\ clients' = [clients EXCEPT ![u].set = @ \ {ch}]
            /\ chans' = [chans EXCEPT ![ch].pc = pcPanic]
            /\ last' = [BrokerCall("Unregister", u, ch) EXCEPT !.out = "panic"]
       ELSE /\ clients' = [clients EXCEPT ![u] =
                              IF @.set \ {ch} = {} THEN NoEntry
                              ELSE [@ EXCEPT !.set = @ \ {ch}]]
            /\ chans' = [chans EXCEPT ![ch].closed = TRUE, ![ch].pc = pcOk]
            /\ last' = BrokerCall("Unregister", u, ch)
    /\ UNCHANGED <<bc, storeVars>>

\* Broker.Unregister, called once more by the owner of a channel
Unregister(u, ch) ==
    /\ ch \in 1..Len(chans)
    /\ UnregisterAt(u, ch, chans[ch].pc, chans[ch].pc)

\* StreamNotifications lines 663-664: the deferred broker.Unregister
StreamUnregister(ch) ==
    /\ ch \in 1..Len(chans)
    /\ chans[ch].pc = "registered"
    /\ UnregisterAt(chans[ch].user, ch, "unregistered", "returned")

\* StreamNotifications line 665: the deferred close(clientChan)
StreamClose(ch) ==
    /\ ch \in 1..Len(chans)
    /\ chans[ch].pc = "unregistered"
    /\ chans' = [chans EXCEPT ![ch].closed = TRUE, ![ch].pc = "returned"]
    /\ last' = [BrokerCall("close", chans[ch].user, ch) EXCEPT
                   !.out = IF chans[ch].closed THEN "panic" ELSE "ok"]
    /\ UNCHANGED <<clients, bc, storeVars>>

\* the stream loop's `event := <-clientChan`
Receive(ch) ==
    /\ ch \in 1..Len(chans)
    /\ chans[ch].buf # <<>>
    /\ chans' = [chans EXCEPT ![ch].buf = Tail(@)]
    /\ UNCHANGED <<clients, bc, last, storeVars>>

\* json.Marshal(event.Data) succeeds
Marshals(data) == data = Marshalable

\* a copy that keeps the UserID of the caller's event
CopyOfCallersEvent(data, u) ==
    [Type |-> EventType, Data |-> <<"raw", data>>, UserID |-> bc.user]

\* eventCopy: the type, the marshalled data and the user id
EventCopy(data, u) == [Type |-> EventType, Data |-> <<"raw", data>>, UserID |-> u]

\* a lookup that falls back to every client when the user has none
TargetsOrEveryone(u) ==
    IF clients[u].ok THEN {<<u, ch>> : ch \in ClientsOf(u)}
    ELSE {<<v, ch>> : v \in UUIDs, ch \in ChanIds} \cap
         {q \in UUIDs \X ChanIds : q[2] \in ClientsOf(q[1])}

\* a loop over the channels of every user once the event's user has one
TargetsOfAnyUser(u) ==
    IF clients[u].ok
    THEN {q \in UUIDs \X ChanIds : q[2] \in ClientsOf(q[1])}
    ELSE {}

\* `if userClients, ok := b.clients[event.UserID]; ok`: the channels Broadcast
\* ranges over
BroadcastTargets(u) ==
    IF clients[u].ok THEN {<<u, ch>> : ch \in ClientsOf(u)} ELSE {}

\* every channel of every user: the two loops of BroadcastToAll
AllTargets == {q \in UUIDs \X ChanIds : q[2] \in ClientsOf(q[1])}

\* Broker.Broadcast lines 64-80: take the read lock, look the user up and
\* marshal the data; a marshal error returns before the loop
Broadcast(u, data) ==
    /\ bc.pc = "idle"
    /\ bc' = [pc |-> "sending", all |-> FALSE, user |-> u, data |-> data,
              todo |-> IF Marshals(data) THEN BroadcastTargets(u) ELSE {},
              done |-> {}]
    /\ UNCHANGED <<clients, chans, last, storeVars>>

\* Broker.BroadcastToAll lines 101-117: a marshal error skips the user
BroadcastToAll(data) ==
    /\ bc.pc = "idle"
    /\ bc' = [pc |-> "sending", all |-> TRUE, user |-> "", data |-> data,
              todo |-> IF Marshals(data) THEN AllTargets ELSE {},
              done |-> {}]
    /\ UNCHANGED <<clients, chans, last, storeVars>>

\* a bare `clientChan <- eventCopy`, without a default case
SelectWithoutDefault == FALSE

\* the select of the send has a default case
SelectHasDefault == TRUE

\* a send that empties a full queue to make room for the event
SendOrFlush(buf, e) ==
    IF Len(buf) < QueueCap THEN Append(buf, e) ELSE <<e>>

\* select { case clientChan <- eventCopy: default: }
SendOrSkip(buf, e) == IF Len(buf) < QueueCap THEN Append(buf, e) ELSE buf

BroadcastOp == IF bc.all THEN "BroadcastToAll" ELSE "Broadcast"

\* one iteration of the loop over the user's channels; a send on a closed
\* channel panics and the deferred RUnlock releases the lock
BroadcastSend(q) ==
    /\ bc.pc = "sending"
    /\ q \in bc.todo
    /\ Len(chans[q[2]].buf) < QueueCap \/ SelectHasDefault
    /\ IF chans[q[2]].closed
       THEN /\ bc' = BcIdle
            /\ last' = [BrokerCall(BroadcastOp, bc.user, q[2]) EXCEPT
                           !.out = "panic"]
            /\ UNCHANGED chans
       ELSE /\ chans' = [chans EXCEPT ![q[2]].buf =
                            SendOrSkip(@, EventCopy(bc.data, q[1]))]
            /\ bc' = [bc EXCEPT !.todo = @ \ {q}, !.done = @ \cup {q}]
            /\ UNCHANGED last
    /\ UNCHANGED <<clients, storeVars>>

\* the loop is over: the deferred RUnlock, and the return
BroadcastReturn ==
    /\ bc.pc = "sending"
    /\ bc.todo = {}
    /\ bc' = BcIdle
    /\ last' = BrokerCall(BroadcastOp, bc.user, 0)
    /\ UNCHANGED <<clients, chans, storeVars>>

BrokerInit ==
    /\ notifications = <<>>
    /\ recipients = {}
    /\ nextRid = 1
    /\ users = {"u1", "u2"}
    /\ sysEnabled = TRUE
    /\ clock = 0
    /\ last = NoCall
    /\ ops = 0
    /\ NewBroker
    /\ rd = RdIdle
    /\ procs = NoProcs

BrokerNext ==
    \/ \E u \in UUIDs : StreamNotifications(u)
    \/ \E ch \in 1..Len(chans) : Unregister(chans[ch].user, ch)
    \/ \E ch \in ChanIds : StreamUnregister(ch)
    \/ \E ch \in ChanIds : StreamClose(ch)
    \/ \E ch \in ChanIds : Receive(ch)
    \/ \E u \in UUIDs, d \in EventData : Broadcast(u, d)
    \/ \E d \in EventData : BroadcastToAll(d)
    \/ \E q \in UUIDs \X ChanIds : BroadcastSend(q)
    \/ BroadcastReturn

BrokerSpec == BrokerInit /\ [][BrokerNext]_vars

\* the goroutine that runs a Broadcast is scheduled; no client is assumed
\* to read its queue
BrokerLive ==
    /\ BrokerSpec
    /\ WF_vars(\E q \in UUIDs \X ChanIds : BroadcastSend(q))
    /\ WF_vars(BroadcastReturn)

\* ------------------------------------------------------ template rendering
\* Strings are sequences of characters.  The variables of a trigger request
\* are a JSON object decoded into map[string]interface{}: a value is a
\* string, nil, a float64 or a slice.
VarKeys == {<<"a">>, <<"b">>}

StringValue(s) == [kind |-> "string", s |-> s, n |-> 0]
NilValue == [kind |-> "nil", s |-> <<>>, n |-> 0]
FloatValue(n) == [kind |-> "float64", s |-> <<>>, n |-> n]
SliceValue(s) == [kind |-> "slice", s |-> s, n |-> 0]

\* the values of a request: "x", "{{b}}", null, 5, 1000000, ["x"]
VarValues ==
    {StringValue(<<"x">>), StringValue(<<"{", "{", "b", "}", "}">>), NilValue,
     FloatValue(5), FloatValue(1000000), SliceValue(<<"x">>)}

\* the templates: "{{a}}", "{{a}}-{{a}}", "{{a}}{{b}}", "x{{c}}" and "{{b}}{{a}}"
Templates ==
    {<<"{", "{", "a", "}", "}">>,
     <<"{", "{", "a", "}", "}", "-", "{", "{", "a", "}", "}">>,
     <<"{", "{", "a", "}", "}", "{", "{", "b", "}", "}">>,
     <<"x", "{", "{", "c", "}", "}">>,
     <<"{", "{", "b", "}", "}", "{", "{", "a", "}", "}">>}

\* fmt.Sprintf("{{%s}}", key)
Placeholder(key) == <<"{", "{">> \o key \o <<"}", "}">>

HasPrefixAt(s, i, p) ==
    i + Len(p) - 1 <= Len(s) /\ SubSeq(s, i, i + Len(p) - 1) = p

\* strings.ReplaceAll(s, old, new) for a non-empty old: the non-overlapping
\* occurrences of old, from the left
RECURSIVE ReplaceFrom(_, _, _, _)
ReplaceFrom(s, i, old, new) ==
    IF i > Len(s) THEN <<>>
    ELSE IF HasPrefixAt(s, i, old)
    THEN new \o ReplaceFrom(s, i + Len(old), old, new)
    ELSE <<s[i]>> \o ReplaceFrom(s, i + 1, old, new)

ReplaceAll(s, old, new) == ReplaceFrom(s, 1, old, new)

DigitChar(d) == <<"0", "1", "2", "3", "4", "5", "6", "7", "8", "9">>[d + 1]

\* the decimal digits of a natural number
RECURSIVE Digits(_)
Digits(n) ==
    IF n < 10 THEN <<DigitChar(n)>>
    ELSE Digits(n \div 10) \o <<DigitChar(n % 10)>>

RECURSIVE StripTrailingZeros(_)
StripTrailingZeros(ds) ==
    IF Len(ds) > 1 /\ ds[Len(ds)] = "0"
    THEN StripTrailingZeros(SubSeq(ds, 1, Len(ds) - 1))
    ELSE ds

\* the exponent at which the shortest %g format switches to scientific
\* notation
GExponent == 6

\* fmt.Sprintf("%v", v) of a float64 that holds a natural number: the
\* shortest %g format, which uses the exponent form from 1e+06 on
FormatV(n) ==
    LET ds == Digits(n)
        exp == Len(ds) - 1
        mant == StripTrailingZeros(ds)
    IN  IF exp < GExponent THEN ds
        ELSE <<mant[1]>> \o (IF Len(mant) > 1 THEN <<".">> \o Tail(mant) ELSE <<>>)
             \o <<"e", "+">> \o (IF exp < 10 THEN <<"0">> ELSE <<>>) \o Digits(exp)

\* json.Marshal of a value: null, a number in plain decimal notation (below
\* 1e21), a quoted string, an array of quoted strings
JSONMarshal(v) ==
    CASE v.kind = "nil" -> <<"n", "u", "l", "l">>
      [] v.kind = "float64" -> Digits(v.n)
      [] v.kind = "string" -> <<"\"">> \o v.s \o <<"\"">>
      [] v.kind = "slice" -> <<"[", "\"">> \o v.s \o <<"\"", "]">>

\* the type switch of renderTemplateString: a string as it is, nil as the
\* empty string, a bool or a number by %v, anything else by json.Marshal
ValueStr(v) ==
    CASE v.kind = "string" -> v.s
      [] v.kind = "nil" -> <<>>
      [] v.kind = "float64" -> FormatV(v.n)
      [] v.kind = "slice" -> JSONMarshal(v)

\* the calls renderTemplateString(template, variables)
RenderCalls ==
    {[pc |-> "loop", template |-> t, variables |-> vs, todo |-> DOMAIN vs,
      result |-> t] :
        t \in Templates,
        vs \in UNION {[ks -> VarValues] : ks \in SUBSET VarKeys}}

\* one iteration of `for key, value := range variables`; the order in which a
\* map is ranged over is not specified
RenderIterate(key) ==
    /\ rd.pc = "loop"
    /\ key \in rd.todo
    /\ rd' = [rd EXCEPT
                !.todo = @ \ {key},
                !.result = ReplaceAll(@, Placeholder(key),
                                      ValueStr(rd.variables[key]))]
    /\ UNCHANGED <<notifications, recipients, nextRid, users, sysEnabled, clock,
                   last, ops, brokerVars, raceVars>>

\* `return result`
RenderReturn ==
    /\ rd.pc = "loop"
    /\ rd.todo = {}
    /\ rd' = [rd EXCEPT !.pc = "done"]
    /\ UNCHANGED <<notifications, recipients, nextRid, users, sysEnabled, clock,
                   last, ops, brokerVars, raceVars>>

RenderInit ==
    /\ notifications = <<>>
    /\ recipients = {}
    /\ nextRid = 1
    /\ users = {"u1", "u2"}
    /\ sysEnabled = TRUE
    /\ clock = 0
    /\ last = NoCall
    /\ ops = 0
    /\ NewBroker
    /\ rd \in RenderCalls
    /\ procs = NoProcs

RenderNext ==
    \/ \E key \in VarKeys : RenderIterate(key)
    \/ RenderReturn

RenderSpec == RenderInit /\ [][RenderNext]_vars

\* ------------------------------------------------------ requests in flight
\* Handlers run on one goroutine per request, so the statements of two
\* requests interleave.  `procs` holds the requests of a behaviour, each with
\* its position `pc` and its locals.  A db.Transaction is one step: the
\* transactions of two requests never overlap, which is the schedule most
\* favourable to the handlers; the statements a method issues outside a
\* transaction are one step each.
RaceTemplate == 1

Proc(op, targets, content, user, key) ==
    [op |-> op, pc |-> "start", id |-> RaceTemplate, targets |-> targets,
     content |-> content, user |-> user, key |-> key, t |-> NoTime,
     nid |-> 0, meta |-> Metadata(NullOther, NoTargets, NoKey), out |-> ""]

\* the requests: publish to one user, to two, to everyone; update; delete;
\* trigger for a user with a dedup key; create; convert to draft; schedule
\* for one user or without targets; unschedule
RaceRequests ==
    {Proc("PublishNotification", ts, EmptyText, "", NoKey) :
        ts \in {<<"u1">>, <<"u1", "u2">>, <<>>}}
    \cup {Proc("UpdateNotification", <<>>, "c2", "", NoKey),
          Proc("DeleteNotification", <<>>, EmptyText, "", NoKey)}
    \cup {Proc("TriggerSystemNotification", <<>>, EmptyText, u, k) :
            u \in UUIDs, k \in DedupKeys}
    \cup {Proc("CreateNotification", <<>>, "c1", "", NoKey),
          Proc("ConvertToDraft", <<>>, EmptyText, "", NoKey),
          Proc("UnscheduleNotificationWithCleanup", <<>>, EmptyText, "", NoKey)}
    \cup {[Proc("ScheduleNotificationWithTargets", ts, EmptyText, "", NoKey)
              EXCEPT !.t = s] : ts \in {<<>>, <<"u1">>}, s \in SchedTimes}

\* what a step of a request leaves alone besides the tables it writes
RaceFrame ==
    UNCHANGED <<users, sysEnabled, clock, last, ops, brokerVars, renderVars>>

At(p, op, pc) ==
    p \in 1..Len(procs) /\ procs[p].op = op /\ procs[p].pc = pc

Done(p, out) == [procs EXCEPT ![p].pc = "done", ![p].out = out]

\* a request arrives
StartRequest(r) ==
    /\ Len(procs) < MaxProcs
    /\ procs' = Append(procs, r)
    /\ UNCHANGED <<notifications, recipients, nextRid>>
    /\ RaceFrame

\* PublishNotification lines 756-785: the draft lookup, the users query when
\* the target list is empty, time.Now() and the rows to insert
PublishFindDraft(p) ==
    /\ At(p, "PublishNotification", "start")
    /\ procs' = IF FindDraft(procs[p].id)
                THEN [procs EXCEPT ![p].pc = "tx",
                                   ![p].targets = ResolveTargets(@),
                                   ![p].t = now]
                ELSE Done(p, "error")
    /\ UNCHANGED <<notifications, recipients, nextRid>>
    /\ RaceFrame

\* an update that clears is_draft and leaves delivered_at alone
MarkPublishedFlagOnly(id, t) ==
    IF Live(id)
    THEN [notifications EXCEPT ![id].isDraft = FALSE]
    ELSE notifications

\* tx.Model(&template).Where("id = ?", id).Updates(is_draft, delivered_at):
\* gorm adds "deleted_at IS NULL"; a statement that matches no row is no
\* error
MarkPublished(id, t) ==
    IF Live(id)
    THEN [notifications EXCEPT ![id].isDraft = FALSE, ![id].deliveredAt = t]
    ELSE notifications

\* PublishNotification lines 786-802: the transaction inserts the rows built
\* before it and marks the template
PublishTransaction(p) ==
    /\ At(p, "PublishNotification", "tx")
    /\ nextRid + Len(procs[p].targets) - 1 <= MaxRows
    /\ recipients' = recipients \cup
          {[r EXCEPT !.created_at = procs[p].t] :
              r \in PendingRows(procs[p].id, procs[p].targets)}
    /\ nextRid' = nextRid + Len(procs[p].targets)
    /\ notifications' = MarkPublished(procs[p].id, procs[p].t)
    /\ procs' = Done(p, "ok")
    /\ RaceFrame

\* UpdateNotification line 703: the draft lookup
UpdateFindDraft(p) ==
    /\ At(p, "UpdateNotification", "start")
    /\ procs' = IF FindDraft(procs[p].id)
                THEN [procs EXCEPT ![p].pc = "write"]
                ELSE Done(p, "error")
    /\ UNCHANGED <<notifications, recipients, nextRid>>
    /\ RaceFrame

\* UpdateNotification line 735: Model(&existing).Updates(updates), keyed by
\* the primary key of the row that was read
UpdateByPrimaryKey(id, content) ==
    IF Live(id)
    THEN [notifications EXCEPT ![id] = ApplyUpdate(@, content, NullOther, NoTime)]
    ELSE notifications

UpdateWrite(p) ==
    /\ At(p, "UpdateNotification", "write")
    /\ notifications' = UpdateByPrimaryKey(procs[p].id, procs[p].content)
    /\ procs' = [procs EXCEPT ![p].pc = "reload"]
    /\ UNCHANGED <<recipients, nextRid>>
    /\ RaceFrame

\* UpdateNotification line 738: Where("id = ?", id).First(&existing)
UpdateReload(p) ==
    /\ At(p, "UpdateNotification", "reload")
    /\ procs' = Done(p, IF Live(procs[p].id) THEN "ok" ELSE "error")
    /\ UNCHANGED <<notifications, recipients, nextRid>>
    /\ RaceFrame

\* DeleteNotification: the transaction deletes the rows and soft deletes the
\* template
DeleteTransaction(p) ==
    /\ At(p, "DeleteNotification", "start")
    /\ recipients' = recipients \ RowsOf(procs[p].id)
    /\ notifications' = IF Live(procs[p].id)
                        THEN [notifications EXCEPT ![procs[p].id].deleted = TRUE]
                        ELSE notifications
    /\ procs' = Done(p, "ok")
    /\ UNCHANGED nextRid
    /\ RaceFrame

\* TriggerSystemNotification lines 513-546: the template lookup; the request
\* carries every required variable
TriggerLookup(p) ==
    /\ At(p, "TriggerSystemNotification", "start")
    /\ procs' = IF FindEnabledTemplate(SeededEventKey)
                THEN [procs EXCEPT ![p].pc = "dedup"]
                ELSE Done(p, "no_content")
    /\ UNCHANGED <<notifications, recipients, nextRid>>
    /\ RaceFrame

\* TriggerSystemNotification lines 548-571: the dedup query
TriggerDedup(p) ==
    /\ At(p, "TriggerSystemNotification", "dedup")
    /\ procs' = IF DedupHit(procs[p].user, procs[p].key, "none")
                THEN Done(p, "deduped")
                ELSE [procs EXCEPT ![p].pc = "create"]
    /\ UNCHANGED <<notifications, recipients, nextRid>>
    /\ RaceFrame

\* CreateAndDeliverSystemNotification up to line 1018: time.Now() and the
\* Create of the template
TriggerCreate(p) ==
    /\ At(p, "TriggerSystemNotification", "create")
    /\ Len(notifications) < MaxNotifs
    /\ notifications' = Append(notifications, SystemNotification(procs[p].key))
    /\ procs' = [procs EXCEPT ![p].pc = "recipient", ![p].t = now,
                              ![p].nid = Len(notifications) + 1]
    /\ UNCHANGED <<recipients, nextRid>>
    /\ RaceFrame

\* CreateAndDeliverSystemNotification lines 1020-1035: the Create of the
\* recipient row
TriggerRecipient(p) ==
    /\ At(p, "TriggerSystemNotification", "recipient")
    /\ nextRid <= MaxRows
    /\ recipients' = recipients \cup
          {NotificationRecipient(nextRid, procs[p].nid, procs[p].user,
                                 RecipientStatusDelivered, procs[p].t,
                                 procs[p].t)}
    /\ nextRid' = nextRid + 1
    /\ procs' = Done(p, "ok")
    /\ UNCHANGED notifications
    /\ RaceFrame

\* CreateNotification line 694: the Create of the draft
CreateInsert(p) ==
    /\ At(p, "CreateNotification", "start")
    /\ Len(notifications) < MaxNotifs
    /\ notifications' = Append(notifications,
          Notification(procs[p].content, Metadata(NullOther, NoTargets, NoKey),
                       TRUE, NoTime, NoTime))
    /\ procs' = [Done(p, "ok") EXCEPT ![p].nid = Len(notifications) + 1]
    /\ UNCHANGED <<recipients, nextRid>>
    /\ RaceFrame

\* ConvertToDraft lines 916-934: the transaction resets the template, by
\* Where("id = ?", id) on the notifications that are not soft-deleted, and
\* deletes its rows
ConvertTransaction(p) ==
    /\ At(p, "ConvertToDraft", "start")
    /\ notifications' = IF Live(procs[p].id)
                        THEN [notifications EXCEPT
                                 ![procs[p].id] = ResetToDraft(@)]
                        ELSE notifications
    /\ recipients' = recipients \ RowsOf(procs[p].id)
    /\ procs' = Done(p, "ok")
    /\ UNCHANGED nextRid
    /\ RaceFrame

\* lines 1050 and 1073: Where("id = ?", id).First(&existing) of the two
\* schedule methods, which keep the metadata they have read
ScheduleFind(p) ==
    /\ \/ At(p, "ScheduleNotificationWithTargets", "start")
       \/ At(p, "UnscheduleNotificationWithCleanup", "start")
    /\ procs' = IF FindForSchedule(procs[p].id)
                THEN [procs EXCEPT ![p].pc = "write",
                         ![p].meta = notifications[procs[p].id].metadata]
                ELSE Done(p, "error")
    /\ UNCHANGED <<notifications, recipients, nextRid>>
    /\ RaceFrame

\* ScheduleNotificationWithTargets line 1067: Model(&existing).Updates of
\* scheduled_at and, for a non-empty target list, of the metadata that was
\* read, keyed by the primary key
ScheduleWrite(p) ==
    /\ At(p, "ScheduleNotificationWithTargets", "write")
    /\ notifications' =
          IF Live(procs[p].id)
          THEN [notifications EXCEPT
                   ![procs[p].id].scheduledAt = procs[p].t,
                   ![procs[p].id].metadata =
                       IF Len(procs[p].targets) > 0
                       THEN ScheduledMetadata(procs[p].meta, procs[p].targets)
                       ELSE @]
          ELSE notifications
    /\ procs' = Done(p, "ok")
    /\ UNCHANGED <<recipients, nextRid>>
    /\ RaceFrame

\* UnscheduleNotificationWithCleanup line 1088: Model(&existing).Updates of
\* scheduled_at and of the metadata that was read, without its target list
UnscheduleWrite(p) ==
    /\ At(p, "UnscheduleNotificationWithCleanup", "write")
    /\ notifications' =
          IF Live(procs[p].id)
          THEN [notifications EXCEPT
                   ![procs[p].id].scheduledAt = NoTime,
                   ![procs[p].id].metadata = UnscheduledMetadata(procs[p].meta)]
          ELSE notifications
    /\ procs' = Done(p, "ok")
    /\ UNCHANGED <<recipients, nextRid>>
    /\ RaceFrame

\* the store when the requests arrive: empty, or holding one draft
RaceInit ==
    /\ notifications \in
          {<<>>, <<Notification("c1", Metadata(NullOther, NoTargets, NoKey),
                                TRUE, NoTime, NoTime)>>}
    /\ recipients = {}
    /\ nextRid = 1
    /\ users = {"u1", "u2"}
    /\ sysEnabled = TRUE
    /\ clock = 0
    /\ last = NoCall
    /\ ops = 0
    /\ NewBroker
    /\ rd = RdIdle
    /\ procs = NoProcs

RaceProcs == 1..MaxProcs

RaceNext ==
    \/ Tick
    \/ \E r \in RaceRequests : StartRequest(r)
    \/ \E p \in RaceProcs : PublishFindDraft(p)
    \/ \E p \in RaceProcs : PublishTransaction(p)
    \/ \E p \in RaceProcs : UpdateFindDraft(p)
    \/ \E p \in RaceProcs : UpdateWrite(p)
    \/ \E p \in RaceProcs : UpdateReload(p)
    \/ \E p \in RaceProcs : DeleteTransaction(p)
    \/ \E p \in RaceProcs : TriggerLookup(p)
    \/ \E p \in RaceProcs : TriggerDedup(p)
    \/ \E p \in RaceProcs : TriggerCreate(p)
    \/ \E p \in RaceProcs : TriggerRecipient(p)
    \/ \E p \in RaceProcs : CreateInsert(p)
    \/ \E p \in RaceProcs : ConvertTransaction(p)
    \/ \E p \in RaceProcs : ScheduleFind(p)
    \/ \E p \in RaceProcs : ScheduleWrite(p)
    \/ \E p \in RaceProcs : UnscheduleWrite(p)

RaceSpec == RaceInit /\ [][RaceNext]_vars

\* ----------------------------------------------------------- SSE stream
\* The handler hands its stream writer to SetBodyStreamWriter and returns
\* (line 799); its deferred cleanup runs at that return.  The writer runs
\* when the server writes the response body: its steps are not ordered with
\* the cleanup.

\* StreamNotifications lines 685-736: the initial snapshot is queried and
\* written, then the ready event
StreamSnapshot(ch) ==
    /\ ch \in 1..Len(chans)
    /\ chans[ch].w = "start"
    /\ chans' = [chans EXCEPT ![ch].w = "streaming"]
    /\ UNCHANGED <<clients, bc, last, storeVars>>

\* StreamNotifications line 751: the stream loop takes an event from the
\* queue and writes it
StreamReceive(ch) ==
    /\ ch \in 1..Len(chans)
    /\ chans[ch].w = "streaming"
    /\ Receive(ch)

\* StreamNotifications lines 747-749: the context is done and the stream
\* writer returns
StreamEnd(ch) ==
    /\ ch \in 1..Len(chans)
    /\ chans[ch].w = "streaming"
    /\ chans' = [chans EXCEPT ![ch].w = "ended"]
    /\ UNCHANGED <<clients, bc, last, storeVars>>

StreamNext ==
    \/ \E u \in UUIDs : StreamNotifications(u)
    \/ \E ch \in ChanIds : StreamUnregister(ch)
    \/ \E ch \in ChanIds : StreamClose(ch)
    \/ \E ch \in ChanIds : StreamSnapshot(ch)
    \/ \E ch \in ChanIds : StreamReceive(ch)
    \/ \E ch \in ChanIds : StreamEnd(ch)
    \/ \E u \in UUIDs : Broadcast(u, Marshalable)
    \/ \E q \in UUIDs \X ChanIds : BroadcastSend(q)
    \/ BroadcastReturn

StreamSpec == BrokerInit /\ [][StreamNext]_vars

\* ---------------------------------------------------------- specification
\* models.NotificationRequest bodies: <<heading/title/message, metadata,
\* scheduled_at>>; the first is rejected by the handlers' validation
NotificationRequests ==
    {<<EmptyText, NullOther, NoTime>>, <<"c1", NullOther, NoTime>>,
     <<"c2", "m1", NoTime>>, <<"c2", "m1", 1>>}

Next ==
    \/ Tick
    \/ \E in \in NotificationRequests : CreateNotification(in[1], in[2], in[3])
    \/ \E id \in NotifIds, in \in NotificationRequests :
            UpdateNotification(id, in[1], in[2], in[3])
    \/ \E id \in NotifIds, f \in TxFails : DeleteNotification(id, f)
    \/ \E id \in NotifIds, t \in TargetLists, f \in PublishFails :
            PublishNotification(id, t, f)
    \/ \E id \in NotifIds, f \in TxFails : ConvertToDraft(id, f)
    \/ \E id \in NotifIds, s \in SchedTimes, t \in TargetLists :
            ScheduleNotificationWithTargets(id, s, t)
    \/ \E id \in NotifIds : UnscheduleNotificationWithCleanup(id)
    \/ \E u \in UUIDs, ids \in SUBSET NotifIds : MarkNotificationsRead(u, ids)
    \/ \E u \in UUIDs : MarkAllRead(u)
    \/ \E u \in UUIDs, id \in NotifIds : DeleteNotificationForUser(u, id)
    \/ \E u \in UUIDs, ids \in SUBSET NotifIds : ClearAllNotifications(u, ids)
    \/ \E e \in EventKeys, b \in BOOLEAN : UpdateSystemTemplate(e, b)
    \/ \E e \in EventKeys, u \in UUIDs, p \in SUBSET VarNames,
          k \in DedupKeys \cup {NoKey}, f \in TriggerFails :
            TriggerSystemNotification(e, u, p, k, f)

Spec == Init /\ [][Next]_vars

\* ----------------------------------------------------------------- claims
\* the step is a request handled by `op`
IsCall(op) == ops' = ops + 1 /\ last'.op = op

\* the recipient rows a step inserts
Inserted == recipients' \ recipients

\* how often a user occurs in a target list
Occurrences(targets, u) == Cardinality({i \in 1..Len(targets) : targets[i] = u})

PublishedBy(id, n) ==
    /\ \A r \in Inserted :
          r.notification_id = id /\ r.status = RecipientStatusPending
    /\ Cardinality(Inserted) = n
    /\ recipients \subseteq recipients'
    /\ notifications[id].isDraft
    /\ ~notifications'[id].isDraft
    /\ notifications'[id].deliveredAt # NoTime

\* C1 (as stated): every successful PublishNotification(id, targets) on a
\* draft inserts exactly one pending row referencing id per entry of targets,
\* or one per user of the users table when targets is empty, and leaves the
\* template with isDraft = false and deliveredAt set.
C1_PublishOnePerDirectoryUser ==
    [][(IsCall("PublishNotification") /\ last'.out = "ok") =>
          \A t \in TargetLists, f \in PublishFails :
              PublishNotification(last'.id, t, f) =>
                  PublishedBy(last'.id, IF Len(t) = 0 THEN Cardinality(users)
                                        ELSE Len(t))
      ]_vars

\* C1 (amended): every successful PublishNotification(id, targets) on a draft
\* inserts exactly one pending row referencing id per entry of targets, or,
\* when targets is empty, one per user of the users table whose id parses as
\* a UUID (the other users are skipped), and leaves the template with
\* isDraft = false and deliveredAt set.
C1_PublishOnePerTarget ==
    [][(IsCall("PublishNotification") /\ last'.out = "ok") =>
          \A t \in TargetLists, f \in PublishFails :
              PublishNotification(last'.id, t, f) =>
                  /\ PublishedBy(last'.id, IF Len(t) = 0
                                           THEN Cardinality(users \cap UUIDs)
                                           ELSE Len(t))
                  /\ \A u \in UUIDs :
                        Cardinality({r \in Inserted : r.user_id = u}) =
                            IF Len(t) = 0 THEN (IF u \in users THEN 1 ELSE 0)
                            ELSE Occurrences(t, u)
      ]_vars

\* a publish to a repeated target has just inserted its two pending rows
C1_Witness ==
    /\ last.op = "PublishNotification" /\ last.out = "ok"
    /\ Cardinality({r \in RowsOf(last.id) :
           r.user_id = "u2" /\ r.status = RecipientStatusPending}) = 2
    /\ ~notifications[last.id].isDraft

\* C2: PublishNotification on a template that is already published
\* (isDraft = false) answers with an error, inserts no recipient row and
\* changes no template.
C2_RepublishRejected ==
    [][(/\ IsCall("PublishNotification")
        /\ last'.id \in 1..Len(notifications)
        /\ ~notifications[last'.id].isDraft) =>
            /\ last'.out = "error"
            /\ UNCHANGED <<notifications, recipients, nextRid>>
      ]_vars

\* a publish on a published template that still has its rows was rejected
C2_Witness ==
    /\ last.op = "PublishNotification" /\ last.out = "error"
    /\ Live(last.id)
    /\ ~notifications[last.id].isDraft
    /\ RowsOf(last.id) # {}

\* C3: UpdateNotification(id, req) with a valid body succeeds and writes the
\* request's content, metadata and schedule whenever the template exists with
\* isDraft = true; it fails with the not-editable error and changes nothing
\* whenever the template is published or does not exist.
C3_UpdateOnlyDrafts ==
    [][IsCall("UpdateNotification") =>
          \A in \in NotificationRequests :
              (UpdateNotification(last'.id, in[1], in[2], in[3])
                  /\ in[1] # EmptyText) =>
                  IF /\ last'.id \in 1..Len(notifications)
                     /\ ~notifications[last'.id].deleted
                     /\ notifications[last'.id].isDraft
                  THEN /\ last'.out = "ok"
                       /\ notifications'[last'.id].content = in[1]
                       /\ notifications'[last'.id].metadata.other = in[2]
                       /\ notifications'[last'.id].scheduledAt = in[3]
                       /\ notifications'[last'.id].isDraft
                       /\ \A j \in 1..Len(notifications) :
                             j # last'.id => notifications'[j] = notifications[j]
                  ELSE /\ last'.out = "error"
                       /\ UNCHANGED <<notifications, recipients>>
      ]_vars

\* an update has rewritten a draft
C3_Witness ==
    /\ last.op = "UpdateNotification" /\ last.out = "ok"
    /\ notifications[last.id].isDraft
    /\ notifications[last.id].content = "c2"

\* an update of a published template was refused
C3_WitnessRefused ==
    /\ last.op = "UpdateNotification" /\ last.out = "error"
    /\ Live(last.id)
    /\ ~notifications[last.id].isDraft

\* C4: right after a successful ConvertToDraft(id) the template has
\* isDraft = true, scheduledAt = nil and deliveredAt = nil, and no recipient
\* row references id.
C4_ConvertToDraftResets ==
    [][(IsCall("ConvertToDraft") /\ last'.out = "ok") =>
          /\ {r \in recipients' : r.notification_id = last'.id} = {}
          /\ Live(last'.id) =>
                /\ notifications'[last'.id].isDraft
                /\ notifications'[last'.id].scheduledAt = NoTime
                /\ notifications'[last'.id].deliveredAt = NoTime
      ]_vars

\* a template whose rows had been inserted is a draft again, without rows
C4_Witness ==
    /\ last.op = "ConvertToDraft" /\ last.out = "ok"
    /\ Live(last.id)
    /\ notifications[last.id].isDraft
    /\ nextRid > 1
    /\ recipients = {}

\* C5: of two TriggerSystemNotification calls executed one after the other
\* with the same userId and the same non-nil dedupKey less than 24 hours
\* apart (enabled template, all required variables present, no store
\* failure), the first of which created its template and recipient row, the
\* second answers "deduped" and creates nothing.
C5_SecondTriggerDeduped ==
    [][(/\ IsCall("TriggerSystemNotification")
        /\ last.op = "TriggerSystemNotification" /\ last.out = "ok"
        /\ last'.user = last.user
        /\ notifications[last.id].metadata.dedup_key # NoKey
        /\ \E r \in RowsOf(last.id) :
              r.user_id = last.user /\ r.created_at > clock - DedupWindow) =>
          \A e \in EventKeys :
              (/\ e = SeededEventKey /\ sysEnabled
               /\ TriggerSystemNotification(e, last'.user, VarNames,
                      notifications[last.id].metadata.dedup_key, "none")) =>
                  /\ last'.out = "deduped"
                  /\ UNCHANGED <<notifications, recipients, nextRid>>
      ]_vars

\* C6: a second MarkNotificationsRead(userId, ids) with the arguments of the
\* call before it succeeds and leaves every recipient row as the first call
\* left it; the readAt of a row that is already read is not overwritten.
C6_MarkReadTwice ==
    [][(/\ IsCall("MarkNotificationsRead")
        /\ last.op = "MarkNotificationsRead" /\ last.out = "ok"
        /\ last'.user = last.user /\ last'.ids = last.ids) =>
            /\ last'.out = "ok"
            /\ recipients' = recipients
      ]_vars

AllowedStatusChanges ==
    {<<RecipientStatusPending, RecipientStatusDelivered>>,
     <<RecipientStatusDelivered, RecipientStatusRead>>,
     <<RecipientStatusPending, RecipientStatusFailed>>,
     <<RecipientStatusDelivered, RecipientStatusFailed>>}

\* C7: the status of a recipient row changes only along pending->delivered,
\* delivered->read, pending->failed and delivered->failed; in particular
\* MarkNotificationsRead turns no pending and no failed row into read.
C7_StatusForwardOnly ==
    [][\A r \in recipients, q \in recipients' :
          (r.rid = q.rid /\ r.status # q.status) =>
              <<r.status, q.status>> \in AllowedStatusChanges
      ]_vars

\* the lifecycle state of a template
TemplateState(n) ==
    IF ~n.isDraft THEN "Published"
    ELSE IF n.scheduledAt # NoTime THEN "ScheduledDraft"
    ELSE "Draft"

AllowedTemplateMoves ==
    {<<"Draft", "PublishNotification", "Published">>,
     <<"Draft", "ScheduleNotificationWithTargets", "ScheduledDraft">>,
     <<"ScheduledDraft", "PublishNotification", "Published">>,
     <<"ScheduledDraft", "UnscheduleNotificationWithCleanup", "Draft">>,
     <<"Published", "ConvertToDraft", "Draft">>}

\* C8: ScheduleNotificationWithTargets and UnscheduleNotificationWithCleanup
\* take effect only on templates with isDraft = true: they never set or
\* change the scheduledAt of a published template, and they move a template
\* between lifecycle states only along Draft -> ScheduledDraft (schedule) and
\* ScheduledDraft -> Draft (unschedule).
C8_ScheduleOnlyDrafts ==
    [][(IsCall("ScheduleNotificationWithTargets")
            \/ IsCall("UnscheduleNotificationWithCleanup")) =>
          \A id \in 1..Len(notifications) :
              /\ ~notifications[id].isDraft =>
                    notifications'[id].scheduledAt = notifications[id].scheduledAt
              /\ TemplateState(notifications'[id]) # TemplateState(notifications[id])
                    => <<TemplateState(notifications[id]), last'.op,
                         TemplateState(notifications'[id])>> \in AllowedTemplateMoves
      ]_vars

C10_WitnessUnknown ==
    /\ last.op = "TriggerSystemNotification" /\ last.out = "no_content"
    /\ last.event = UnknownEventKey /\ sysEnabled

FirstAbsent(p) ==
    SeededTemplateVars[CHOOSE i \in 1..Len(SeededTemplateVars) :
        /\ SeededTemplateVars[i] \notin p
        /\ \A j \in 1..(i - 1) : SeededTemplateVars[j] \in p]

\* C11: when some name of the system template's templateVars is absent from
\* the supplied variables, TriggerSystemNotification fails with an error
\* that names the first such name in templateVars order, and creates no
\* template and no recipient row.
C11_MissingVariableRejected ==
    [][(/\ IsCall("TriggerSystemNotification")
        /\ last'.event = SeededEventKey /\ sysEnabled
        /\ last'.fail # "lookup") =>
          \A p \in (SUBSET VarNames) \ {VarNames}, k \in DedupKeys \cup {NoKey} :
              TriggerSystemNotification(last'.event, last'.user, p, k,
                                        last'.fail) =>
                  /\ last'.out = "bad_request"
                  /\ last'.missing = FirstAbsent(p)
                  /\ UNCHANGED <<notifications, recipients, nextRid>>
      ]_vars

\* a trigger that lacked both variables was refused, naming the first one
C11_Witness ==
    /\ last.op = "TriggerSystemNotification" /\ last.out = "bad_request"
    /\ last.missing = SeededTemplateVars[1]
    /\ notifications = <<>> /\ recipients = {}

\* C12: when the dedup existence query itself fails, a
\* TriggerSystemNotification call that carries a dedupKey (enabled template,
\* all variables present) creates the template and the recipient row as if no
\* duplicate had been found: a failing dedup check suppresses no delivery.
C12_DedupFailsOpen ==
    [][(/\ IsCall("TriggerSystemNotification")
        /\ last'.event = SeededEventKey /\ sysEnabled
        /\ last'.fail = "dedup") =>
          \A k \in DedupKeys :
              TriggerSystemNotification(last'.event, last'.user, VarNames, k,
                                        "dedup") =>
                  /\ last'.out = "ok"
                  /\ Len(notifications') = Len(notifications) + 1
                  /\ notifications'[last'.id].metadata.dedup_key = k
                  /\ ~notifications'[last'.id].isDraft
                  /\ \E r \in Inserted :
                        /\ Inserted = {r}
                        /\ r.notification_id = last'.id
                        /\ r.user_id = last'.user
                        /\ r.status = RecipientStatusDelivered
      ]_vars

\* a trigger with a dedup key delivered although its dedup query failed
C12_Witness ==
    /\ last.op = "TriggerSystemNotification" /\ last.out = "ok"
    /\ last.fail = "dedup"
    /\ notifications[last.id].metadata.dedup_key \in DedupKeys
    /\ \E r \in RowsOf(last.id) : r.user_id = last.user

C18_PublishFailureRollsBack ==
    [][(/\ IsCall("PublishNotification")
        /\ last'.fail \in {"insert", "update"}
        /\ last'.id \in 1..Len(notifications)
        /\ ~notifications[last'.id].deleted
        /\ notifications[last'.id].isDraft) =>
          /\ last'.out = "error"
          /\ recipients' = recipients
          /\ notifications'[last'.id].isDraft
          /\ notifications'[last'.id].deliveredAt = NoTime
          /\ notifications' = notifications
      ]_vars

\* a publish whose template update failed left a draft without rows
C18_Witness ==
    /\ last.op = "PublishNotification" /\ last.fail = "update"
    /\ last.out = "error"
    /\ Live(last.id)
    /\ notifications[last.id].isDraft
    /\ notifications[last.id].deliveredAt = NoTime
    /\ RowsOf(last.id) = {}

IsSend(q) == bc.pc = "sending" /\ bc'.pc = "sending" /\ bc'.done = bc.done \cup {q}
    /\ q \notin bc.done

\* the step is the return of a Broadcast (not BroadcastToAll)
IsBroadcastReturn ==
    bc.pc = "sending" /\ ~bc.all /\ bc'.pc = "idle" /\ last'.out = "ok"

\* what a Broadcast loop iteration may do to the queues: the queue of q gets
\* the event if it has room and is left alone if it is full, no other queue
\* changes, and q is a channel registered under the event's user
SendsToOwnQueue(q) ==
    /\ q[1] = bc.user
    /\ q[2] \in ClientsOf(bc.user)
    /\ chans'[q[2]].buf =
          IF Len(chans[q[2]].buf) < QueueCap
          THEN Append(chans[q[2]].buf, EventCopy(bc.data, bc.user))
          ELSE chans[q[2]].buf
    /\ \A c \in 1..Len(chans) : c # q[2] => chans'[c] = chans[c]
    /\ Len(chans') = Len(chans)

\* C13 (as stated): Broker.Broadcast(event) offers the event to every queue
\* registered under event.UserID, placing it in those with free capacity and
\* leaving the full ones, every other queue of the user and every queue of
\* another user unchanged; no queue ever holds more than its capacity.
C13_BroadcastReachesEveryQueue ==
    [][/\ \A q \in UUIDs \X ChanIds :
              (IsSend(q) /\ ~bc.all) => SendsToOwnQueue(q)
       /\ IsBroadcastReturn =>
              bc.done = {<<bc.user, c>> : c \in ClientsOf(bc.user)}
       /\ \A c \in 1..Len(chans') : Len(chans'[c].buf) <= QueueCap
      ]_vars

\* C13 (amended): Broker.Broadcast(event) whose event.Data can be marshalled
\* to JSON offers a copy of the event to every queue registered under
\* event.UserID, placing it in those with free capacity and leaving the full
\* ones, every other queue of the user and every queue of another user
\* unchanged; when the data cannot be marshalled it offers the event to no
\* queue.  No queue ever holds more than its capacity.
C13_BroadcastBounded ==
    [][/\ \A q \in UUIDs \X ChanIds :
              (IsSend(q) /\ ~bc.all) => SendsToOwnQueue(q)
       /\ IsBroadcastReturn =>
              bc.done = IF bc.data = Marshalable
                        THEN {<<bc.user, c>> : c \in ClientsOf(bc.user)}
                        ELSE {}
       /\ \A c \in 1..Len(chans') : Len(chans'[c].buf) <= QueueCap
      ]_vars

\* a Broadcast has returned after it skipped a full queue of the user and
\* filled another queue of the same user
C13_Witness ==
    /\ last.op = "Broadcast" /\ last.out = "ok" /\ bc.pc = "idle"
    /\ \E c, e \in 1..Len(chans) :
          /\ c # e
          /\ {c, e} \subseteq ClientsOf(last.user)
          /\ Len(chans[c].buf) = QueueCap
          /\ Len(chans[e].buf) \in 1..(QueueCap - 1)

\* C14: Broker.Broadcast and Broker.BroadcastToAll always return, whatever
\* the fill level of the queues and even if no client ever reads: a running
\* broadcast eventually is over.
C14_BroadcastReturns == (bc.pc = "sending") ~> (bc.pc = "idle")

\* a broadcast has returned while a registered queue was full
C14_Witness ==
    /\ bc.pc = "idle"
    /\ last.op \in {"Broadcast", "BroadcastToAll"} /\ last.out = "ok"
    /\ \E u \in UUIDs : \E c \in ClientsOf(u) : Len(chans[c].buf) = QueueCap

\* C15: Broker.Broadcast for a user with no registered queue returns without
\* an error and changes neither the registration map nor any queue: while it
\* runs no queue grows, and it ends by returning.
C15_BroadcastNoClients ==
    [][(bc.pc = "sending" /\ ~bc.all /\ ClientsOf(bc.user) = {}) =>
          /\ bc.todo = {} /\ bc.done = {}
          /\ clients' = clients
          /\ \A c \in 1..Len(chans) : Len(chans'[c].buf) <= Len(chans[c].buf)
          /\ bc' # bc =>
                /\ bc'.pc = "idle"
                /\ last'.op = "Broadcast" /\ last'.out = "ok"
                /\ chans' = chans
      ]_vars

\* a Broadcast for a user without a queue has returned while another user
\* has a queue, which is still empty
C15_Witness ==
    /\ last.op = "Broadcast" /\ last.out = "ok" /\ bc.pc = "idle"
    /\ ClientsOf(last.user) = {}
    /\ \E u \in UUIDs : \E c \in ClientsOf(u) : chans[c].buf = <<>>

\* C16: Unregister is idempotent: over any sequence of Register, Unregister
\* and stream cleanup steps no channel that is already closed is closed
\* again, and an Unregister of a queue that is not registered under the user
\* changes nothing and closes nothing.
C16_ClosedAtMostOnce ==
    [][/\ (last' # last /\ last'.op \in {"Unregister", "close"}) =>
              last'.out # "panic"
       /\ \A u \in UUIDs, c \in 1..Len(chans) :
              (/\ last' # last /\ last'.op = "Unregister"
               /\ last'.user = u /\ last'.id = c
               /\ c \notin ClientsOf(u)) =>
                  /\ clients' = clients
                  /\ chans'[c].closed = chans[c].closed
      ]_vars

\* C22: MarkAllRead(userId) changes exactly the rows of userId whose status
\* is delivered, setting them to read with readAt set to the time of the
\* call; rows of userId in another status and all rows of other users are
\* unchanged.
C22_MarkAllReadFrame ==
    [][IsCall("MarkAllRead") =>
          /\ last'.out = "ok"
          /\ recipients' =
                {IF r.user_id = last'.user /\ r.status = RecipientStatusDelivered
                 THEN [r EXCEPT !.status = RecipientStatusRead, !.read_at = clock]
                 ELSE r : r \in recipients}
          /\ UNCHANGED <<notifications, nextRid>>
      ]_vars

\* MarkAllRead has turned the delivered row of its user into read and left
\* the delivered row of another user alone
C22_Witness ==
    /\ last.op = "MarkAllRead" /\ last.out = "ok"
    /\ \E r, q \in recipients :
          /\ r.user_id = last.user /\ r.status = RecipientStatusRead
          /\ r.read_at = clock /\ r.delivered_at # NoTime
          /\ q.user_id # last.user /\ q.status = RecipientStatusDelivered
          /\ q.read_at = NoTime

\* C23: CreateNotification with an empty heading, title or message is
\* rejected and persists nothing; otherwise it persists exactly one new
\* template with isDraft = true and deliveredAt = nil, changes no other
\* template and creates no recipient row.
C23_CreateValidatesAndPersistsDraft ==
    [][IsCall("CreateNotification") =>
          /\ recipients' = recipients /\ nextRid' = nextRid
          /\ \A in \in NotificationRequests :
                CreateNotification(in[1], in[2], in[3]) =>
                    IF in[1] = EmptyText
                    THEN last'.out = "bad_request" /\ notifications' = notifications
                    ELSE /\ last'.out = "ok"
                         /\ Len(notifications') = Len(notifications) + 1
                         /\ SubSeq(notifications', 1, Len(notifications)) =
                                notifications
                         /\ LET n == notifications'[Len(notifications')]
                            IN  /\ n.isDraft /\ n.deliveredAt = NoTime
                                /\ ~n.deleted /\ n.content = in[1]
      ]_vars

\* a create was rejected for its empty text after another had persisted a
\* draft, which is still the only template
C23_Witness ==
    /\ last.op = "CreateNotification" /\ last.out = "bad_request"
    /\ Len(notifications) = 1
    /\ notifications[1].isDraft /\ notifications[1].deliveredAt = NoTime
    /\ recipients = {}

\* C26: a recipient row with status delivered or read has deliveredAt set, a
\* row has readAt set exactly when its status is read, and a deliveredAt or
\* readAt that is set is never changed by a later operation.
C26_TimestampsSetOnce ==
    [][/\ \A r \in recipients' :
              /\ r.status \in {RecipientStatusDelivered, RecipientStatusRead} =>
                    r.delivered_at # NoTime
              /\ r.read_at # NoTime <=> r.status = RecipientStatusRead
       /\ \A r \in recipients, q \in recipients' :
              r.rid = q.rid =>
                  /\ r.delivered_at # NoTime => q.delivered_at = r.delivered_at
                  /\ r.read_at # NoTime => q.read_at = r.read_at
      ]_vars

\* the step is the return of a BroadcastToAll
IsBroadcastToAllReturn ==
    bc.pc = "sending" /\ bc.all /\ bc'.pc = "idle" /\ last'.out = "ok"

\* what a BroadcastToAll loop iteration may do to the queues: q is a channel
\* registered under the user q[1], its queue gets a copy of the event tagged
\* with q[1] if it has room and is left alone if it is full, and no other
\* queue changes
SendsTaggedCopy(q) ==
    /\ q[2] \in ClientsOf(q[1])
    /\ chans'[q[2]].buf =
          IF Len(chans[q[2]].buf) < QueueCap
          THEN Append(chans[q[2]].buf,
                      [Type |-> EventType, Data |-> <<"raw", bc.data>>,
                       UserID |-> q[1]])
          ELSE chans[q[2]].buf
    /\ \A c \in 1..Len(chans) : c # q[2] => chans'[c] = chans[c]
    /\ Len(chans') = Len(chans)

\* C25 (as stated): Broker.BroadcastToAll(event) offers one copy of the
\* event, tagged with the owning user's id, to every registered queue of every
\* user, placing it in those with free capacity and skipping the full ones
\* without changing them or any other queue.
C25_BroadcastToAllReachesEveryQueue ==
    [][/\ \A q \in UUIDs \X ChanIds :
              (IsSend(q) /\ bc.all) => SendsTaggedCopy(q)
       /\ IsBroadcastToAllReturn =>
              bc.done = {q \in UUIDs \X ChanIds : q[2] \in ClientsOf(q[1])}
      ]_vars

\* C25 (amended): Broker.BroadcastToAll(event) whose event.Data can be
\* marshalled to JSON offers one copy of the event, tagged with the owning
\* user's id, to every registered queue of every user, placing it in those
\* with free capacity and skipping the full ones without changing them or any
\* other queue; when the data cannot be marshalled it offers the event to no
\* queue.
C25_BroadcastToAllTagged ==
    [][/\ \A q \in UUIDs \X ChanIds :
              (IsSend(q) /\ bc.all) => SendsTaggedCopy(q)
       /\ IsBroadcastToAllReturn =>
              bc.done = IF bc.data = Marshalable
                        THEN {q \in UUIDs \X ChanIds : q[2] \in ClientsOf(q[1])}
                        ELSE {}
      ]_vars

\* a BroadcastToAll has returned after it skipped the full queue of one user
\* and placed a copy tagged with the other user's id in that user's queue
C25_Witness ==
    /\ last.op = "BroadcastToAll" /\ last.out = "ok" /\ bc.pc = "idle"
    /\ \E c \in ClientsOf("u1"), e \in ClientsOf("u2") :
          /\ Len(chans[c].buf) = QueueCap
          /\ Len(chans[e].buf) \in 1..(QueueCap - 1)
          /\ chans[e].buf[Len(chans[e].buf)].UserID = "u2"

\* the value of a variable as the claim has it: a string verbatim, any other
\* value JSON-encoded
EncodedValue(v) == IF v.kind = "string" THEN v.s ELSE JSONMarshal(v)

\* the template with every {{name}} whose name is in variables replaced by
\* the value of name, in one pass from the left; every other character,
\* placeholders of other names included, is kept
RECURSIVE Substituted(_, _, _)
Substituted(t, i, vs) ==
    IF i > Len(t) THEN <<>>
    ELSE IF \E k \in DOMAIN vs : HasPrefixAt(t, i, Placeholder(k))
    THEN LET k == CHOOSE x \in DOMAIN vs : HasPrefixAt(t, i, Placeholder(x))
         IN  EncodedValue(vs[k]) \o Substituted(t, i + Len(Placeholder(k)), vs)
    ELSE <<t[i]>> \o Substituted(t, i + 1, vs)

\* C24: renderTemplateString returns the template with every occurrence of
\* {{name}}, for each name in variables, replaced by the variable's value
\* (strings verbatim, other values JSON-encoded) and every placeholder of
\* another name left verbatim.
C24_RenderSubstitutes ==
    rd.pc = "done" => rd.result = Substituted(rd.template, 1, rd.variables)

\* every request in flight or ended is of one of the kinds `kinds`
OnlyRequests(kinds) == \A p \in 1..Len(procs) : procs[p].op \in kinds

\* C21: in every reachable state, under any interleaving of
\* DeleteNotification with PublishNotification on the same id, every
\* recipient row references a template that exists and is not deleted.
C21_RowsReferenceLiveTemplate ==
    OnlyRequests({"DeleteNotification", "PublishNotification"}) =>
        \A r \in recipients : Live(r.notification_id)

\* the requests of a kind that have ended successfully
Succeeded(op) ==
    {p \in 1..Len(procs) :
        procs[p].op = op /\ procs[p].pc = "done" /\ procs[p].out = "ok"}

\* C27: under any interleaving of PublishNotification calls on the same
\* draft, at most one call succeeds, and the template has exactly one
\* recipient row per target of the successful call.
C27_OnePublishSucceeds ==
    OnlyRequests({"PublishNotification"}) =>
        /\ Cardinality(Succeeded("PublishNotification")) <= 1
        /\ \A p \in Succeeded("PublishNotification") :
              Live(procs[p].id) =>
                  Cardinality(RowsOf(procs[p].id)) = Len(procs[p].targets)

\* C28: under any interleaving of UpdateNotification with
\* PublishNotification, once the publish has committed isDraft = false no
\* step changes the content, the metadata or the scheduledAt of the template.
C28_PublishedContentFrozen ==
    [][OnlyRequests({"UpdateNotification", "PublishNotification"}) =>
          \A id \in 1..Len(notifications) :
              (Live(id) /\ ~notifications[id].isDraft) =>
                  /\ notifications'[id].content = notifications[id].content
                  /\ notifications'[id].metadata = notifications[id].metadata
                  /\ notifications'[id].scheduledAt =
                        notifications[id].scheduledAt
      ]_vars

\* C29: under any interleaving of two TriggerSystemNotification calls with
\* the same userId and the same dedupKey, at most one of them creates a
\* template/recipient pair.
C29_OneTriggerCreates ==
    \A p, q \in 1..Len(procs) :
        (/\ p # q
         /\ procs[p].op = "TriggerSystemNotification"
         /\ procs[q].op = "TriggerSystemNotification"
         /\ procs[p].user = procs[q].user /\ procs[p].key = procs[q].key) =>
            ~(procs[p].nid # 0 /\ procs[q].nid # 0)

\* C30: the queue of a streaming connection is registered before the
\* initial snapshot is read and stays registered until the stream ends, so
\* every event broadcast for the user after the snapshot was read and before
\* the stream ends is offered to the queue.
C30_RegisteredUntilStreamEnds ==
    [][/\ \A ch \in 1..Len(chans') :
              chans'[ch].w # "ended" => ch \in clients'[chans'[ch].user].set
       /\ (bc.pc = "idle" /\ bc'.pc = "sending" /\ ~bc'.all) =>
              \A ch \in 1..Len(chans) :
                  (chans[ch].user = bc'.user /\ chans[ch].w = "streaming") =>
                      <<bc'.user, ch>> \in bc'.todo
      ]_vars

\* C39: MarkNotificationsRead(userId, ids) changes only recipient rows whose
\* user is userId and whose notification id is in ids; every other
\* recipient row and every template is unchanged.
C39_MarkReadFrame ==
    [][IsCall("MarkNotificationsRead") =>
          /\ \A r \in recipients :
                \/ r \in recipients'
                \/ r.user_id = last'.user /\ r.notification_id \in last'.ids
          /\ {r.rid : r \in recipients'} = {r.rid : r \in recipients}
          /\ Cardinality(recipients') = Cardinality(recipients)
          /\ UNCHANGED <<notifications, nextRid>>
      ]_vars

\* MarkNotificationsRead has turned the row of its user into read while the
\* row of another user for the same notification is still pending
C39_Witness ==
    /\ last.op = "MarkNotificationsRead" /\ last.out = "ok"
    /\ \E r, q \in recipients :
          /\ r.user_id = last.user /\ r.notification_id \in last.ids
          /\ r.status = RecipientStatusRead
          /\ q.user_id # last.user /\ q.notification_id = r.notification_id
          /\ q.status = RecipientStatusPending /\ q.read_at = NoTime

\* C32: when the creation of the recipient row fails after the template was
\* created, CreateAndDeliverSystemNotification keeps the template, returns
\* success and leaves no recipient row for it; the template is not rolled
\* back.
C32_TemplateKeptWithoutRow ==
    [][/\ IsCall("TriggerSystemNotification")
       /\ last'.fail = "recipient"
       /\ last'.out \notin {"no_content", "bad_request", "deduped"}
       =>
          /\ last'.out = "ok"
          /\ Len(notifications') = Len(notifications) + 1
          /\ last'.id = Len(notifications')
          /\ SubSeq(notifications', 1, Len(notifications)) = notifications
          /\ ~notifications'[last'.id].deleted
          /\ ~notifications'[last'.id].isDraft
          /\ \A r \in recipients' : r.notification_id # last'.id
          /\ UNCHANGED <<recipients, nextRid>>
      ]_vars

\* a system notification whose recipient row failed: the call succeeded,
\* the template is live and no row refers to it
C32_Witness ==
    /\ last.op = "TriggerSystemNotification" /\ last.out = "ok"
    /\ last.fail = "recipient"
    /\ Live(last.id)
    /\ notifications[last.id].content = SystemContent
    /\ RowsOf(last.id) = {}

\* C33: after a successful ScheduleNotificationWithTargets(id, t, targets)
\* the target list stashed in the template's metadata equals targets, also
\* when the template had been scheduled before with another list and also
\* when targets is empty.
C33_StashedTargetsAreTheRequested ==
    [][(IsCall("ScheduleNotificationWithTargets") /\ last'.out = "ok") =>
          \A t \in SchedTimes, tg \in TargetLists :
              ScheduleNotificationWithTargets(last'.id, t, tg) =>
                  notifications'[last'.id].metadata.target_user_ids = tg
      ]_vars

\* C31: Register, Unregister, Broadcast and BroadcastToAll are serialized by
\* one read/write lock: while a Broadcast or BroadcastToAll iterates the
\* client map no Register or Unregister changes it, and for any interleaving
\* of them no event is sent to a closed queue, so that no broadcast panics.
C31_LockSerializesBroker ==
    [][/\ bc.pc = "sending" => clients' = clients
       /\ bc.pc = "sending" =>
              \A q \in bc.todo : q[2] \in ClientsOf(q[1]) /\ ~chans[q[2]].closed
       /\ \A q \in UUIDs \X ChanIds : IsSend(q) => ~chans[q[2]].closed
       /\ (bc.pc = "sending" /\ bc'.pc = "idle") =>
              /\ last'.op \in {"Broadcast", "BroadcastToAll"}
              /\ last'.out = "ok"
       /\ \A u \in UUIDs : \A c \in ClientsOf(u) : ~chans[c].closed
      ]_vars

\* a broadcast still holds the lock after a send, the queue has its event,
\* and a queue that was unregistered and closed earlier is not among its
\* targets
C31_Witness ==
    /\ bc.pc = "sending" /\ bc.done # {}
    /\ \E q \in bc.done : chans[q[2]].buf # <<>> /\ ~chans[q[2]].closed
    /\ \E c \in 1..Len(chans) :
          /\ chans[c].closed
          /\ \A u \in UUIDs : c \notin ClientsOf(u)
          /\ \A q \in bc.todo \cup bc.done : q[2] # c

\* C36: an event Broadcast for user A is never placed in a queue that is
\* registered only under user B: while a Broadcast for A runs, no queue of
\* another user receives an event, and no queue ever holds an event of a
\* user other than the one it was registered under.
C36_NoCrossUserDelivery ==
    [][/\ (bc.pc = "sending" /\ ~bc.all) =>
              \A c \in 1..Len(chans) :
                  chans[c].user # bc.user =>
                      /\ Len(chans'[c].buf) <= Len(chans[c].buf)
                      /\ \A i \in 1..Len(chans'[c].buf) :
                            chans'[c].buf[i].UserID # bc.user
       /\ \A c \in 1..Len(chans') : \A i \in 1..Len(chans'[c].buf) :
              chans'[c].buf[i].UserID = chans'[c].user
      ]_vars

\* a Broadcast for one user has returned with the event in that user's
\* queue while the registered queue of the other user is still empty
C36_Witness ==
    /\ last.op = "Broadcast" /\ last.out = "ok" /\ bc.pc = "idle"
    /\ \E c \in ClientsOf(last.user) :
          /\ chans[c].buf # <<>>
          /\ chans[c].buf[1].UserID = last.user
    /\ \E u \in UUIDs \ {last.user} : \E e \in ClientsOf(u) :
          /\ chans[e].buf = <<>>
          /\ ~chans[e].closed

\* the result of the loop when the variables are visited in the order `keys`
RECURSIVE RenderInOrder(_, _, _)
RenderInOrder(s, variables, keys) ==
    IF keys = <<>> THEN s
    ELSE RenderInOrder(ReplaceAll(s, Placeholder(Head(keys)),
                                  ValueStr(variables[Head(keys)])),
                       variables, Tail(keys))

\* the orders in which the keys of a map can be visited
KeyOrders(keys) ==
    {o \in UNION {[1..n -> keys] : n \in {Cardinality(keys)}} :
        \A i, j \in DOMAIN o : i # j => o[i] # o[j]}

\* C38: the result of renderTemplateString does not depend on the order in
\* which the variables are processed, also when the value of one variable
\* contains a {{name}} placeholder of another variable.
C38_RenderOrderIndependent ==
    rd.pc = "done" =>
        \A o \in KeyOrders(DOMAIN rd.variables) :
            rd.result = RenderInOrder(rd.template, rd.variables, o)

C37_HasUnreadIffUnreadList ==
    \A u \in UUIDs :
        HasUnreadNotifications(u) <=> GetUnreadNotifications(u) # {}

====
